---- MODULE Spec2Model ----
(***************************************************************************)
(* Model of the gTTS player add-on (code/gtts_player/__init__.py): the     *)
(* voice enumeration over the fixed language table, the background        *)
(* synthesis step _play, the main-thread completion handler _on_done and   *)
(* the no-op stop, together with the host steps that drive them.           *)
(*                                                                         *)
(* Python strings are sequences of one-character strings, so that split,   *)
(* strip and upper are computed and not assumed.                           *)
(***************************************************************************)
EXTENDS Integers, Sequences, FiniteSets, TLC

(***************************************************************************)
(* Strings                                                                 *)
(***************************************************************************)
\* Python's None, as a value no string of characters can equal.
None == <<"<None>">>

\* The outcome of unpacking a split into the wrong number of names.
ValueError == <<"<ValueError>">>

LowerLetters ==
  <<"a","b","c","d","e","f","g","h","i","j","k","l","m",
    "n","o","p","q","r","s","t","u","v","w","x","y","z">>

UpperLetters ==
  <<"A","B","C","D","E","F","G","H","I","J","K","L","M",
    "N","O","P","Q","R","S","T","U","V","W","X","Y","Z">>

\* str.upper() on one character.
UpperChar(c) ==
  IF \E i \in DOMAIN LowerLetters : LowerLetters[i] = c
  THEN UpperLetters[CHOOSE i \in DOMAIN LowerLetters : LowerLetters[i] = c]
  ELSE c

\* str.upper()
Upper(s) == [i \in DOMAIN s |-> UpperChar(s[i])]

\* "-" in code
Contains(s, c) == \E i \in DOMAIN s : s[i] = c

\* str.split(sep) for a one-character separator: the pieces between
\* separators, empty pieces kept.
RECURSIVE Split(_, _)
Split(s, sep) ==
  IF ~Contains(s, sep)
  THEN <<s>>
  ELSE LET i == CHOOSE k \in DOMAIN s :
                  s[k] = sep /\ \A j \in 1..(k - 1) : s[j] # sep
       IN  <<SubSeq(s, 1, i - 1)>> \o Split(SubSeq(s, i + 1, Len(s)), sep)

\* Strip with the strip forgotten: the text is tested as it is.
NoStrip(s) == s

\* The 29 characters str.strip() removes (those str.isspace() holds of).
\* Thirteen are written as themselves: space, \t, \n, \r, \f, and raw in the
\* next definition U+000B, U+001C..U+001F, U+0085, U+00A0 and U+1680.
AsciiWhitespace == {" ", "\t", "\n", "\r", "\f"}

RawWhitespace == {"", "", "", "", "", "", " ", " "}

\* The sixteen a TLA+ string cannot hold (U+2000..U+200A, U+2028, U+2029,
\* U+202F, U+205F, U+3000) are written by their code point's name.
NamedWhitespace ==
  {"U+2000", "U+2001", "U+2002", "U+2003", "U+2004", "U+2005",
   "U+2006", "U+2007", "U+2008", "U+2009", "U+200A", "U+2028",
   "U+2029", "U+202F", "U+205F", "U+3000"}

Whitespace == AsciiWhitespace \cup RawWhitespace \cup NamedWhitespace

\* str.strip(): leading and trailing whitespace removed.
RECURSIVE Strip(_)
Strip(s) ==
  IF s = <<>> THEN s
  ELSE IF s[1] \in Whitespace THEN Strip(Tail(s))
  ELSE IF s[Len(s)] \in Whitespace THEN Strip(SubSeq(s, 1, Len(s) - 1))
  ELSE s

\* Python truthiness of an optional string: None and "" are false.
Truthy(s) == s # None /\ s # <<>>

(***************************************************************************)
(* The language table and the voices                                       *)
(***************************************************************************)
\* The language map gtts.lang.tts_langs() outputs: <<code, name>>, in the
\* dict's insertion order.
orig_langs ==
  <<
    <<<<"a","f">>, "Afrikaans">>,
    <<<<"a","r">>, "Arabic">>,
    <<<<"b","n">>, "Bengali">>,
    <<<<"b","s">>, "Bosnian">>,
    <<<<"c","a">>, "Catalan">>,
    <<<<"c","s">>, "Czech">>,
    <<<<"c","y">>, "Welsh">>,
    <<<<"d","a">>, "Danish">>,
    <<<<"d","e">>, "German">>,
    <<<<"e","l">>, "Greek">>,
    <<<<"e","n","-","a","u">>, "English (Australia)">>,
    <<<<"e","n","-","c","a">>, "English (Canada)">>,
    <<<<"e","n","-","g","b">>, "English (UK)">>,
    <<<<"e","n","-","g","h">>, "English (Ghana)">>,
    <<<<"e","n","-","i","e">>, "English (Ireland)">>,
    <<<<"e","n","-","i","n">>, "English (India)">>,
    <<<<"e","n","-","n","g">>, "English (Nigeria)">>,
    <<<<"e","n","-","n","z">>, "English (New Zealand)">>,
    <<<<"e","n","-","p","h">>, "English (Philippines)">>,
    <<<<"e","n","-","t","z">>, "English (Tanzania)">>,
    <<<<"e","n","-","u","k">>, "English (UK)">>,
    <<<<"e","n","-","u","s">>, "English (US)">>,
    <<<<"e","n","-","z","a">>, "English (South Africa)">>,
    <<<<"e","o">>, "Esperanto">>,
    <<<<"e","s","-","e","s">>, "Spanish (Spain)">>,
    <<<<"e","s","-","u","s">>, "Spanish (United States)">>,
    <<<<"e","t">>, "Estonian">>,
    <<<<"f","i">>, "Finnish">>,
    <<<<"f","r","-","c","a">>, "French (Canada)">>,
    <<<<"f","r","-","f","r">>, "French (France)">>,
    <<<<"g","u">>, "Gujarati">>,
    <<<<"h","i">>, "Hindi">>,
    <<<<"h","r">>, "Croatian">>,
    <<<<"h","u">>, "Hungarian">>,
    <<<<"h","y">>, "Armenian">>,
    <<<<"i","d">>, "Indonesian">>,
    <<<<"i","s">>, "Icelandic">>,
    <<<<"i","t">>, "Italian">>,
    <<<<"j","a">>, "Japanese">>,
    <<<<"j","w">>, "Javanese">>,
    <<<<"k","m">>, "Khmer">>,
    <<<<"k","n">>, "Kannada">>,
    <<<<"k","o">>, "Korean">>,
    <<<<"l","a">>, "Latin">>,
    <<<<"l","v">>, "Latvian">>,
    <<<<"m","k">>, "Macedonian">>,
    <<<<"m","l">>, "Malayalam">>,
    <<<<"m","r">>, "Marathi">>,
    <<<<"m","y">>, "Myanmar (Burmese)">>,
    <<<<"n","e">>, "Nepali">>,
    <<<<"n","l">>, "Dutch">>,
    <<<<"n","o">>, "Norwegian">>,
    <<<<"p","l">>, "Polish">>,
    <<<<"p","t","-","b","r">>, "Portuguese (Brazil)">>,
    <<<<"p","t","-","p","t">>, "Portuguese (Portugal)">>,
    <<<<"r","o">>, "Romanian">>,
    <<<<"r","u">>, "Russian">>,
    <<<<"s","i">>, "Sinhala">>,
    <<<<"s","k">>, "Slovak">>,
    <<<<"s","q">>, "Albanian">>,
    <<<<"s","r">>, "Serbian">>,
    <<<<"s","u">>, "Sundanese">>,
    <<<<"s","v">>, "Swedish">>,
    <<<<"s","w">>, "Swahili">>,
    <<<<"t","a">>, "Tamil">>,
    <<<<"t","e">>, "Telugu">>,
    <<<<"t","h">>, "Thai">>,
    <<<<"t","l">>, "Filipino">>,
    <<<<"t","r">>, "Turkish">>,
    <<<<"u","k">>, "Ukrainian">>,
    <<<<"u","r">>, "Urdu">>,
    <<<<"v","i">>, "Vietnamese">>,
    <<<<"z","h","-","c","n">>, "Chinese (Mandarin/China)">>,
    <<<<"z","h","-","t","w">>, "Chinese (Mandarin/Taiwan)">>
  >>


\* GTTSVoice(name, lang, gtts_lang)
GTTSVoice(name, lang, gtts_lang) ==
  [name |-> name, lang |-> lang, gtts_lang |-> gtts_lang]

\* compatMap.get(code)
CompatGet(compat, code) ==
  IF code \in DOMAIN compat THEN compat[code] ELSE None

\* StdCode with the tail's upper() forgotten: en_us from en-us.
StdCodeNoUpper(code, compat) ==
  IF Contains(code, "-")
  THEN LET parts == Split(code, "-")
       IN  IF Len(parts) = 2
           THEN parts[1] \o <<"_">> \o parts[2]
           ELSE ValueError
  ELSE CompatGet(compat, code)

\* The standard code one pass of the loop derives for a gtts code: en_US
\* from en-us, the compatMap entry for a bare code (None when absent),
\* ValueError when the split does not unpack into head and tail.
StdCode(code, compat) ==
  IF Contains(code, "-")
  THEN LET parts == Split(code, "-")
       IN  IF Len(parts) = 2
           THEN parts[1] \o <<"_">> \o Upper(parts[2])
           ELSE ValueError
  ELSE CompatGet(compat, code)

\* KeepsEntry with the skip of unmapped codes forgotten.
KeepsEveryEntry(code, compat) == TRUE

\* Whether the loop keeps the entry: a dashed code always, a bare code
\* when its standard code is truthy.
KeepsEntry(code, compat) ==
  Contains(code, "-") \/ Truthy(StdCode(code, compat))

\* The loop of get_available_voices over langs[i..]: one voice named
\* "gTTS" for each entry the loop keeps, in table order.
RECURSIVE VoicesFrom(_, _, _)
VoicesFrom(langs, compat, i) ==
  IF i > Len(langs) THEN <<>>
  ELSE LET code == langs[i][1]
       IN  (IF KeepsEntry(code, compat)
            THEN <<GTTSVoice("gTTS", StdCode(code, compat), code)>>
            ELSE <<>>)
           \o VoicesFrom(langs, compat, i + 1)

\* get_available_voices(): the list it returns, or the error it raises.
GetAvailableVoices(langs, compat) ==
  IF \E i \in DOMAIN langs : StdCode(langs[i][1], compat) = ValueError
  THEN [raised |-> "ValueError", voices |-> <<>>]
  ELSE [raised |-> "", voices |-> VoicesFrom(langs, compat, 1)]

(***************************************************************************)
(* The host: compatMap, tags, voice matching, temp files                   *)
(***************************************************************************)
\* anki.lang.compatMap is the host's: the entries a host may hold for the
\* bare codes ja and jw.  compatMap is any restriction of this map, so
\* every other bare code of the table is unmapped.
CompatEntries ==
  (<<"j","a">> :> <<"j","a","_","J","P">>) @@
  (<<"j","w">> :> <<"j","v","_","I","D">>)

CompatMaps ==
  { [c \in D |-> CompatEntries[c]] : D \in SUBSET (DOMAIN CompatEntries) }

\* The field texts, languages and speeds of the TTS tags the host plays.
\* (the second is space, U+000B, tab, U+3000: whitespace only)
Texts == { <<>>, <<" ", "", "\t", "U+3000">>, <<"a">>, <<" ", "b", "\n">> }

TagLangs == { <<"e","n","_","G","B">>, <<"j","a","_","J","P">> }

Speeds == {0, 1, 2}

\* TTSTag(field_text, lang, speed)
TTSTag(field_text, lang, speed) ==
  [field_text |-> field_text, lang |-> lang, speed |-> speed]

Tags ==
  { TTSTag(t, l, s) : t \in Texts, l \in TagLangs, s \in Speeds }

\* The tag before the first request.
NoTag == TTSTag(<<>>, None, 1)

\* voice_for_tag found no voice.
NoMatch == GTTSVoice("", None, None)

\* self.voice_for_tag(tag): the first available voice in the tag's
\* language (every voice of this player has the one name gTTS).
voice_for_tag(tg, vs) ==
  IF \E i \in DOMAIN vs : vs[i].lang = tg.lang
  THEN vs[CHOOSE i \in DOMAIN vs :
            vs[i].lang = tg.lang /\ \A j \in 1..(i - 1) : vs[j].lang # tg.lang]
  ELSE NoMatch

\* self.temp_file_for_tag_and_voice(tag, voice): a path that is a
\* function of the voice's name and language and the field text.
temp_file_for_tag_and_voice(tg, voice) ==
  [name |-> voice.name, lang |-> voice.lang, text |-> tg.field_text]

\* path + ".mp3"
Mp3Path(base) == [base |-> base, suffix |-> ".mp3"]

\* self._tmpfile: the attribute does not exist until _play assigns it.
Unset == [set |-> FALSE]

SetTo(path) == [set |-> TRUE, path |-> path]

\* What tts.save() can do: write the whole file, fail while downloading
\* (gTTSError, the opened file is left partial), or fail to open the file
\* (OSError, no file).
LibOutcomes == {"ok", "gTTSError", "OSError"}

NoFile == [data |-> "", saves |-> 0]

\* A file on disk: its content ("partial" from the moment it is opened,
\* "mp3" once a save has completed) and the number of completed saves.
FileAt(fs, p) == IF p \in DOMAIN fs THEN fs[p] ELSE NoFile

\* tts.save opens the path for writing: the file exists, empty.
OpenForWrite(fs, p) ==
  [q \in DOMAIN fs \cup {p} |->
     IF q = p THEN [data |-> "partial", saves |-> FileAt(fs, p).saves]
     ELSE fs[q]]

\* tts.save has written the whole file.
FinishWrite(fs, p) ==
  [fs EXCEPT ![p] = [data |-> "mp3", saves |-> @.saves + 1]]

(***************************************************************************)
(* GTTSPlayer                                                              *)
(***************************************************************************)
\* Slow with the comparison off by one: speed 1 counts as slow.
SlowInclusive(speed) == speed <= 1

\* gtts only offers 'normal' and 'slow'
Slow(speed) == speed < 1

\* The gTTS(...) constructor call _play makes.
GttsCall(tg, voice) ==
  [op |-> "gTTS", text |-> tg.field_text, lang |-> voice.gtts_lang,
   lang_check |-> FALSE, slow |-> Slow(tg.speed)]

\* _play_begin with the os.path.exists test forgotten: every non-blank
\* request synthesizes again.
_play_begin_no_cache(tg, vs, tmp, fs) ==
  LET match == voice_for_tag(tg, vs)
      path  == Mp3Path(temp_file_for_tag_and_voice(tg, match))
  IN  IF match = NoMatch
      THEN [next |-> "main", ret |-> "AssertionError", tmpfile |-> tmp,
            log |-> <<>>]
      ELSE IF Strip(tg.field_text) = <<>>
      THEN [next |-> "main", ret |-> "ok", tmpfile |-> tmp, log |-> <<>>]
      ELSE [next |-> "synth", ret |-> "pending", tmpfile |-> SetTo(path),
            log |-> <<[op |-> "temp_file", path |-> path,
                       exists |-> FALSE]>>]

\* _play_begin with the path kept in a local until synthesis: a cache hit
\* returns without assigning self._tmpfile.
_play_begin_hit_keeps_tmpfile(tg, vs, tmp, fs) ==
  LET match == voice_for_tag(tg, vs)
      path  == Mp3Path(temp_file_for_tag_and_voice(tg, match))
  IN  IF match = NoMatch
      THEN [next |-> "main", ret |-> "AssertionError", tmpfile |-> tmp,
            log |-> <<>>]
      ELSE IF Strip(tg.field_text) = <<>>
      THEN [next |-> "main", ret |-> "ok", tmpfile |-> tmp, log |-> <<>>]
      ELSE IF path \in DOMAIN fs
      THEN [next |-> "main", ret |-> "ok", tmpfile |-> tmp,
            log |-> <<[op |-> "temp_file", path |-> path,
                       exists |-> TRUE]>>]
      ELSE [next |-> "synth", ret |-> "pending", tmpfile |-> SetTo(path),
            log |-> <<[op |-> "temp_file", path |-> path,
                       exists |-> FALSE]>>]

\* _play(tag) up to the existence test (lines 139-151), with the player's
\* _tmpfile tmp and the files fs: where the thread goes next ("main": it
\* has returned or raised; "synth": it goes on to synthesize), the result
\* of the future when it has returned, the new _tmpfile, the calls made.
_play_begin(tg, vs, tmp, fs) ==
  LET match == voice_for_tag(tg, vs)
      path  == Mp3Path(temp_file_for_tag_and_voice(tg, match))
  IN  IF match = NoMatch
      THEN [next |-> "main", ret |-> "AssertionError", tmpfile |-> tmp,
            log |-> <<>>]
      ELSE IF Strip(tg.field_text) = <<>>
      THEN [next |-> "main", ret |-> "ok", tmpfile |-> tmp, log |-> <<>>]
      ELSE IF path \in DOMAIN fs
      THEN [next |-> "main", ret |-> "ok", tmpfile |-> SetTo(path),
            log |-> <<[op |-> "temp_file", path |-> path,
                       exists |-> TRUE]>>]
      ELSE [next |-> "synth", ret |-> "pending", tmpfile |-> SetTo(path),
            log |-> <<[op |-> "temp_file", path |-> path,
                       exists |-> FALSE]>>]

\* _play from the slow flag to the opening of the file in tts.save
\* (lines 154-160): the gTTS object is made and save opens self._tmpfile,
\* or fails to (lib = "OSError").  Then the thread waits for the network.
_play_open(tg, vs, tmp, fs, lib) ==
  LET calls == <<GttsCall(tg, voice_for_tag(tg, vs)),
                 [op |-> "save", path |-> tmp.path]>>
  IN  IF lib = "OSError"
      THEN [next |-> "main", ret |-> "OSError", files |-> fs, log |-> calls]
      ELSE [next |-> "download", ret |-> "pending",
            files |-> OpenForWrite(fs, tmp.path), log |-> calls]

\* The end of tts.save (line 160): the download has finished and the file
\* is whole, or it failed and the file stays partial.
_play_finish(tmp, fs, lib) ==
  IF lib = "ok"
  THEN [ret |-> "ok", files |-> FinishWrite(fs, tmp.path)]
  ELSE [ret |-> "gTTSError", files |-> fs]

\* _play(tag) from call to return, with the outcome lib of the library's
\* save: the three parts one after the other.
_play(tg, vs, tmp, fs, lib) ==
  LET b == _play_begin(tg, vs, tmp, fs)
      o == _play_open(tg, vs, b.tmpfile, fs, lib)
      f == _play_finish(b.tmpfile, o.files, lib)
  IN  IF b.next = "main"
      THEN [ret |-> b.ret, tmpfile |-> b.tmpfile, files |-> fs,
            log |-> b.log]
      ELSE IF o.next = "main"
      THEN [ret |-> o.ret, tmpfile |-> b.tmpfile, files |-> o.files,
            log |-> b.log \o o.log]
      ELSE [ret |-> f.ret, tmpfile |-> b.tmpfile, files |-> f.files,
            log |-> b.log \o o.log]

\* _on_done with the except clause's return forgotten: an interrupted
\* result falls through to the insertion and the callback.
_on_done_cb_on_interrupt(r, tmp, q) ==
  IF r \notin {"ok", "PlayerInterrupted"}
  THEN [raised |-> r, queue |-> q, log |-> <<>>]
  ELSE IF ~tmp.set
  THEN [raised |-> "AttributeError", queue |-> q, log |-> <<>>]
  ELSE [raised |-> "", queue |-> <<tmp.path>> \o q,
        log |-> <<[op |-> "insert_file", path |-> tmp.path],
                  [op |-> "cb", queue |-> <<tmp.path>> \o q]>>]

\* _on_done catching every exception, not PlayerInterrupted alone: an
\* error of the synthesis is swallowed.
_on_done_swallow_errors(r, tmp, q) ==
  IF r # "ok"
  THEN [raised |-> "", queue |-> q, log |-> <<>>]
  ELSE IF ~tmp.set
  THEN [raised |-> "AttributeError", queue |-> q, log |-> <<>>]
  ELSE [raised |-> "", queue |-> <<tmp.path>> \o q,
        log |-> <<[op |-> "insert_file", path |-> tmp.path],
                  [op |-> "cb", queue |-> <<tmp.path>> \o q]>>]

\* _on_done(ret, cb) on the main thread, with the future's result r, the
\* player's _tmpfile tmp and the playback queue q: the exception that
\* leaves the handler ("" for none), the new queue, and the calls made
\* (cb with the queue it finds).
_on_done(r, tmp, q) ==
  IF r = "PlayerInterrupted"
  THEN [raised |-> "", queue |-> q, log |-> <<>>]
  ELSE IF r # "ok"
  THEN [raised |-> r, queue |-> q, log |-> <<>>]
  ELSE IF ~tmp.set
  THEN [raised |-> "AttributeError", queue |-> q, log |-> <<>>]
  ELSE [raised |-> "", queue |-> <<tmp.path>> \o q,
        log |-> <<[op |-> "insert_file", path |-> tmp.path],
                  [op |-> "cb", queue |-> <<tmp.path>> \o q]>>]

(***************************************************************************)
(* State                                                                   *)
(***************************************************************************)
\* The number of requests the host makes.
MaxRequests == 3

VARIABLES
  pc,         \* "start", "idle", "background" (_play due), "synth" (_play
              \* past the existence test), "download" (_play waiting in
              \* tts.save), "main" (_on_done due)
  compatMap,  \* the host's compatMap
  voices,     \* the voices get_available_voices returned
  tag,        \* the tag of the current (or last) request
  ret,        \* the result the future of the current request carries
  tmpfile,    \* self._tmpfile
  files,      \* the files on disk: path -> content
  queue,      \* av_player's queue, front first
  bgLog,      \* the calls _play made for the current request
  mainLog,    \* the calls _on_done made for the current request
  raised,     \* the exception that left _on_done, "" for none
  nreq        \* the requests made so far

vars ==
  <<pc, compatMap, voices, tag, ret, tmpfile, files, queue, bgLog, mainLog,
    raised, nreq>>

Init ==
  /\ pc = "start"
  /\ compatMap \in CompatMaps
  /\ voices = <<>>
  /\ tag = NoTag
  /\ ret = "none"
  /\ tmpfile = Unset
  /\ files = <<>>
  /\ queue = <<>>
  /\ bgLog = <<>>
  /\ mainLog = <<>>
  /\ raised = ""
  /\ nreq = 0

\* The first time the host tries to play a TTS file it asks for the voices.
get_available_voices ==
  /\ pc = "start"
  /\ LET r == GetAvailableVoices(orig_langs, compatMap)
     IN  /\ r.raised = ""
         /\ voices' = r.voices
  /\ pc' = "idle"
  /\ UNCHANGED <<compatMap, tag, ret, tmpfile, files, queue, bgLog, mainLog,
                 raised, nreq>>

\* The host's play(tag, on_done): it picks this player only for a tag
\* that voice_for_tag matches, and runs _play in the background.
HostPlay ==
  /\ pc = "idle"
  /\ nreq < MaxRequests
  /\ \E tg \in Tags :
       /\ voice_for_tag(tg, voices) # NoMatch
       /\ tag' = tg
  /\ ret' = "pending"
  /\ bgLog' = <<>>
  /\ mainLog' = <<>>
  /\ raised' = ""
  /\ nreq' = nreq + 1
  /\ pc' = "background"
  /\ UNCHANGED <<compatMap, voices, tmpfile, files, queue>>

\* The background thread runs _play up to the existence test.
PlayBegin ==
  /\ pc = "background"
  /\ LET r == _play_begin(tag, voices, tmpfile, files)
     IN  /\ ret' = r.ret
         /\ tmpfile' = r.tmpfile
         /\ bgLog' = r.log
         /\ pc' = r.next
  /\ UNCHANGED <<compatMap, voices, tag, files, queue, mainLog, raised, nreq>>

\* The background thread makes the gTTS object and tts.save opens the file.
PlayOpen ==
  /\ pc = "synth"
  /\ \E lib \in LibOutcomes :
       LET r == _play_open(tag, voices, tmpfile, files, lib)
       IN  /\ ret' = r.ret
           /\ files' = r.files
           /\ bgLog' = bgLog \o r.log
           /\ pc' = r.next
  /\ UNCHANGED <<compatMap, voices, tag, tmpfile, queue, mainLog, raised,
                 nreq>>

\* The download ends, tts.save returns or raises, and so does _play.
PlayFinish ==
  /\ pc = "download"
  /\ \E lib \in LibOutcomes \ {"OSError"} :
       LET r == _play_finish(tmpfile, files, lib)
       IN  /\ ret' = r.ret
           /\ files' = r.files
  /\ pc' = "main"
  /\ UNCHANGED <<compatMap, voices, tag, tmpfile, queue, bgLog, mainLog,
                 raised, nreq>>

\* The host interrupts the background task, wherever _play is: the future
\* carries PlayerInterrupted, and what _play has done so far stays done.
HostInterrupt ==
  /\ pc \in {"background", "synth", "download"}
  /\ ret' = "PlayerInterrupted"
  /\ pc' = "main"
  /\ UNCHANGED <<compatMap, voices, tag, tmpfile, files, queue, bgLog,
                 mainLog, raised, nreq>>

\* The main thread runs _on_done with the future.
OnDone ==
  /\ pc = "main"
  /\ LET r == _on_done(ret, tmpfile, queue)
     IN  /\ raised' = r.raised
         /\ queue' = r.queue
         /\ mainLog' = r.log
  /\ pc' = "idle"
  /\ UNCHANGED <<compatMap, voices, tag, ret, tmpfile, files, bgLog, nreq>>

\* stop() does nothing, whenever the host calls it: also while the file
\* is being downloaded.
stop ==
  /\ pc # "start"
  /\ UNCHANGED vars

\* The host plays the file at the front of its queue.
HostPlayNext ==
  /\ pc = "idle"
  /\ queue # <<>>
  /\ queue' = Tail(queue)
  /\ UNCHANGED <<pc, compatMap, voices, tag, ret, tmpfile, files, bgLog,
                 mainLog, raised, nreq>>

Next ==
  \/ get_available_voices
  \/ HostPlay
  \/ PlayBegin
  \/ PlayOpen
  \/ PlayFinish
  \/ HostInterrupt
  \/ OnDone
  \/ stop
  \/ HostPlayNext

Spec == Init /\ [][Next]_vars

(***************************************************************************)
(* Properties                                                              *)
(***************************************************************************)
\* A text that is empty or consists only of whitespace.
Blank(s) == \A i \in DOMAIN s : s[i] \in Whitespace

\* str.lower() on one character, and on a string.
LowerChar(c) ==
  IF \E i \in DOMAIN UpperLetters : UpperLetters[i] = c
  THEN LowerLetters[CHOOSE i \in DOMAIN UpperLetters : UpperLetters[i] = c]
  ELSE c

Lower(s) == [i \in DOMAIN s |-> LowerChar(s[i])]

\* The target path of a request: the host's file name for the tag and its
\* matched voice, plus the suffix.
TargetPath(tg) ==
  Mp3Path(temp_file_for_tag_and_voice(tg, voice_for_tag(tg, voices)))

\* The library calls in a log of _play.
GttsCalls(log) == { i \in DOMAIN log : log[i].op = "gTTS" }

\* A step in which _play ran up to its existence test (or returned
\* before it).
PlayBegan ==
  pc = "background" /\ pc' \in {"main", "synth"} /\ ret' # "PlayerInterrupted"

\* A step in which _on_done ran.
OnDoneRan == pc = "main" /\ pc' = "idle"

\* get_available_voices has returned and no request has been made yet
\* (no later step changes the voices).
Enumerated == pc = "idle" /\ nreq = 0

\* A request has been made and its _on_done has run.
Completed == pc = "idle" /\ nreq > 0

\* The calls of an _on_done that inserted path p at the front of the
\* queue and then called cb, once, with p in the queue.
InsertedThenCb(log, p) ==
  /\ Len(log) = 2
  /\ log[1] = [op |-> "insert_file", path |-> p]
  /\ log[2].op = "cb"
  /\ log[2].queue # <<>>
  /\ log[2].queue[1] = p

\* The table entries with a region separator, and those without.
Dashed == { i \in DOMAIN orig_langs : Contains(orig_langs[i][1], "-") }

Bare == DOMAIN orig_langs \ Dashed

\* The voices enumerated for table entry i.
VoicesOf(i) == { j \in DOMAIN voices : voices[j].gtts_lang = orig_langs[i][1] }

\* C1: when the result handed to _on_done carries PlayerInterrupted,
\* _on_done returns without raising, without calling the continuation and
\* without inserting a file into the playback queue.
C1_InterruptedIsSwallowed ==
  [][(OnDoneRan /\ ret = "PlayerInterrupted")
       => (raised' = "" /\ mainLog' = <<>> /\ queue' = queue)]_vars

\* C1's case: an interrupted request has been handled while a file of an
\* earlier request was in the queue and a path was remembered.
C1_Witness ==
  /\ Completed
  /\ ret = "PlayerInterrupted"
  /\ tmpfile.set
  /\ queue # <<>>

\* C2: when the result carries an error other than PlayerInterrupted,
\* _on_done raises that error, does not call the continuation and inserts
\* no file.
C2_ErrorPropagates ==
  [][(OnDoneRan /\ ret \notin {"ok", "PlayerInterrupted"})
       => (raised' = ret /\ mainLog' = <<>> /\ queue' = queue)]_vars

\* C2's case: a synthesis error has been propagated by _on_done.
C2_Witness ==
  /\ Completed
  /\ ret = "gTTSError"
  /\ raised = "gTTSError"
  /\ tmpfile.set

\* C3: in every successful completion _on_done inserts the file at the
\* front of the queue and then calls the continuation, exactly once and
\* with the file in the queue.
C3_SuccessInsertsThenCalls ==
  (Completed /\ ret = "ok")
    => /\ raised = ""
       /\ Len(mainLog) = 2
       /\ mainLog[1].op = "insert_file"
       /\ InsertedThenCb(mainLog, mainLog[1].path)

\* C4: for a text that is empty or only whitespace, _play returns without
\* error, computes no target path, calls no library and changes no file.
C4_BlankIsNoOp ==
  [][(PlayBegan /\ Blank(tag.field_text))
       => (pc' = "main" /\ ret' = "ok" /\ bgLog' = <<>> /\ files' = files
           /\ tmpfile' = tmpfile)]_vars

\* C4's case: _play has run on a whitespace-only text, with files on disk
\* and a path remembered.
C4_Witness ==
  /\ pc = "main"
  /\ tag.field_text = <<" ", "", "\t", "U+3000">>
  /\ ret = "ok"
  /\ tmpfile.set
  /\ files # <<>>

\* C5: when a file exists at the target path of a non-blank request,
\* _play returns without calling the library and leaves the files as they
\* are.
C5_CacheHitSkipsLibrary ==
  [][(PlayBegan /\ ~Blank(tag.field_text) /\ TargetPath(tag) \in DOMAIN files)
       => (pc' = "main" /\ ret' = "ok" /\ GttsCalls(bgLog') = {}
           /\ files' = files)]_vars

\* C5's case: _play has returned on a cache hit, on a file a failed
\* synthesis left partial.
C5_Witness ==
  /\ pc = "main"
  /\ ~Blank(tag.field_text)
  /\ ret = "ok"
  /\ GttsCalls(bgLog) = {}
  /\ TargetPath(tag) \in DOMAIN files
  /\ files[TargetPath(tag)].data = "partial"

\* C6: every library call _play makes carries slow = TRUE exactly when the
\* tag's speed is below 1, the tag's text, the matched voice's gtts
\* language code, and lang_check = FALSE.
C6_SlowIffBelowOne ==
  \A i \in GttsCalls(bgLog) :
    /\ bgLog[i].slow = (tag.speed < 1)
    /\ bgLog[i].text = tag.field_text
    /\ bgLog[i].lang = voice_for_tag(tag, voices).gtts_lang
    /\ bgLog[i].lang_check = FALSE

\* C6's case: the library has been called for a tag of speed exactly 1,
\* with slow = FALSE, in the language code en-gb.
C6_Witness ==
  /\ tag.speed = 1
  /\ \E i \in GttsCalls(bgLog) :
       /\ bgLog[i].slow = FALSE
       /\ bgLog[i].lang = <<"e","n","-","g","b">>

\* C7: every table entry whose code has a region separator has a voice
\* whose language is the head lower-cased, an underscore and the tail
\* upper-cased, and whose gtts language is the entry's code.
C7_DashedCodesNormalized ==
  Enumerated =>
    \A i \in Dashed :
      LET code == orig_langs[i][1]
          k    == CHOOSE n \in DOMAIN code : code[n] = "-"
          head == SubSeq(code, 1, k - 1)
          tail == SubSeq(code, k + 1, Len(code))
      IN  \E j \in DOMAIN voices :
            /\ voices[j].gtts_lang = code
            /\ voices[j].lang = Lower(head) \o <<"_">> \o Upper(tail)

\* C7's case: the voices have been enumerated, and en-gb gave en_GB.
C7_Witness ==
  /\ Enumerated
  /\ \E j \in DOMAIN voices :
       /\ voices[j].gtts_lang = <<"e","n","-","g","b">>
       /\ voices[j].lang = <<"e","n","_","G","B">>

\* C8: an entry without a separator has a voice exactly when compatMap
\* maps its code; an entry with a separator always has one; an entry has
\* at most one voice; every voice is named gTTS and has a non-empty
\* language; so the number of voices is the number of dashed entries plus
\* the number of mapped bare entries.
C8_VoicesAreTheMappedEntries ==
  Enumerated =>
    /\ \A i \in Bare :
         (VoicesOf(i) # {}) <=> (orig_langs[i][1] \in DOMAIN compatMap)
    /\ \A i \in Dashed : VoicesOf(i) # {}
    /\ \A i \in DOMAIN orig_langs : Cardinality(VoicesOf(i)) <= 1
    /\ \A j \in DOMAIN voices :
         /\ voices[j].name = "gTTS"
         /\ voices[j].lang # None
         /\ voices[j].lang # <<>>
         /\ \E i \in DOMAIN orig_langs : j \in VoicesOf(i)
    /\ Len(voices) =
         Cardinality(Dashed)
           + Cardinality({ i \in Bare : orig_langs[i][1] \in DOMAIN compatMap })

\* C8's case: the voices have been enumerated with ja mapped and jw not:
\* ja has a voice and jw has none.
C8_Witness ==
  /\ Enumerated
  /\ <<"j","a">> \in DOMAIN compatMap
  /\ <<"j","w">> \notin DOMAIN compatMap
  /\ \E j \in DOMAIN voices : voices[j].gtts_lang = <<"j","a">>
  /\ \A j \in DOMAIN voices : voices[j].gtts_lang # <<"j","w">>

\* C9: every file _on_done inserts is the target path of the request it
\* is completing, and a blank request inserts nothing and fires no
\* continuation.
C9_InsertsOnlyThisRequestsPath ==
  Completed =>
    /\ \A i \in DOMAIN mainLog :
         mainLog[i].op = "insert_file"
           => (~Blank(tag.field_text) /\ mainLog[i].path = TargetPath(tag))
    /\ Blank(tag.field_text) => mainLog = <<>>

\* A request whose _play found a file at its target path: a cache hit.
CacheHit == bgLog # <<>> /\ bgLog[1].exists

\* C10: no path is saved to more than once; after a non-blank request
\* whose _play returned without error a file exists at its target path;
\* the library is not called, even to fail, for a path that has been
\* synthesized; and a cache hit returns without error and still has that
\* file inserted and the continuation called by _on_done.
C10_SynthesizedAtMostOnce ==
  /\ \A p \in DOMAIN files : files[p].saves <= 1
  /\ (pc \in {"main", "idle"} /\ ret = "ok" /\ ~Blank(tag.field_text))
       => TargetPath(tag) \in DOMAIN files
  /\ (pc \in {"main", "idle"} /\ GttsCalls(bgLog) # {} /\ ret # "ok")
       => FileAt(files, TargetPath(tag)).saves = 0
  /\ (pc \in {"main", "idle"} /\ CacheHit)
       => (ret = "ok" /\ GttsCalls(bgLog) = {})
  /\ (Completed /\ CacheHit)
       => (raised = "" /\ InsertedThenCb(mainLog, TargetPath(tag)))

\* C10's case: a later request for a path that was synthesized before has
\* been completed as a cache hit, its file inserted.
C10_Witness ==
  /\ Completed
  /\ nreq >= 2
  /\ ret = "ok"
  /\ ~Blank(tag.field_text)
  /\ CacheHit
  /\ TargetPath(tag) \in DOMAIN files
  /\ files[TargetPath(tag)] = [data |-> "mp3", saves |-> 1]
  /\ InsertedThenCb(mainLog, TargetPath(tag))
====
